---- MODULE Spec2Model ----
(***************************************************************************)
(* Model of the Notion company-analysis workflow: the markdown-to-blocks   *)
(* converter (splitRichText, parseInlineFormatting, collectNestedListItems,*)
(* markdownToNotionBlocks), the append step and the workflow around them.  *)
(*                                                                         *)
(* A JavaScript string is a sequence of one-character strings.  Indices in *)
(* the model are 1-based (TLA+ sequences); the source's 0-based cursor k   *)
(* is the model's k + 1.  The alphabet has no line terminator other than   *)
(* "\n", so the regular expressions' "." matches every character of a line.*)
(***************************************************************************)
EXTENDS Integers, Sequences, FiniteSets, TLC

\* ------------------------------------------------------------- bounds
\* Longest sequence of lines drawn from BaseLines.
MaxLines == 3
\* Short contents given to splitRichText have 0..SmallLen characters.
SmallLen == 3
\* Long contents have k * NOTION_TEXT_LIMIT + d characters, k in 1..MaxChunks.
MaxChunks == 2
\* ... with d in -Delta..Delta.
Delta == 1
\* Block sequences given to the append step have 0..SmallBlocks blocks, and
\* b * BATCH_SIZE + d blocks with b in 1..MaxBatches, d in -Delta..Delta.
SmallBlocks == 2
MaxBatches == 2

\* ------------------------------------------------- program constants
NOTION_TEXT_LIMIT == 2000
BATCH_SIZE == 100

\* ------------------------------------------------------------ strings
Min(a, b) == IF a <= b THEN a ELSE b
MinOf(S) == CHOOSE x \in S : \A y \in S : x <= y

\* F(x), with x evaluated once and F's parameter bound to its value.
Bind(x, F(_)) == CHOOSE r \in {F(v) : v \in {x}} : TRUE

\* The first q in lo..hi with P(q), 0 when there is none.
First(lo, hi, P(_)) ==
    IF \E q \in lo..hi : P(q)
    THEN CHOOSE q \in lo..hi : P(q) /\ \A r \in lo..(q - 1) : ~P(r)
    ELSE 0

\* n copies of character c.
Rep(c, n) == [k \in 1..n |-> c]

\* A content of n characters that cycles through "a", "b", "c", so that a
\* chunk that is dropped, repeated or moved changes the concatenation.
Cyc(n) == [k \in 1..n |-> IF k % 3 = 1 THEN "a" ELSE IF k % 3 = 2 THEN "b" ELSE "c"]

\* String.prototype.slice(a, b) for 0 <= a: characters at 0-based a .. b-1.
Slice(s, a, b) == SubSeq(s, a + 1, Min(b, Len(s)))

\* The backtick character, written as an atom.
BT == "backtick"

\* Characters that \s and trim() treat as white space.
IsWs(c) == c \in {" ", "\t"}

\* line.trim() === ""
IsBlank(s) == \A k \in 1..Len(s) : IsWs(s[k])

\* String.prototype.trim()
Trim(s) ==
    IF IsBlank(s) THEN <<>>
    ELSE LET n  == Len(s)
             lo == First(1, n, LAMBDA k : ~IsWs(s[k]))
             hi == n + 1 - First(1, n, LAMBDA k : ~IsWs(s[n + 1 - k]))
         IN  SubSeq(s, lo, hi)

\* String.prototype.startsWith(p)
StartsWith(s, p) == Len(s) >= Len(p) /\ SubSeq(s, 1, Len(p)) = p

\* Array.prototype.join("\n")
RECURSIVE JoinNL(_)
JoinNL(ls) ==
    IF ls = <<>> THEN <<>>
    ELSE IF Len(ls) = 1 THEN ls[1]
    ELSE ls[1] \o <<"\n">> \o JoinNL(Tail(ls))

\* String.prototype.split("\n"): one more line than there are newlines.
SplitNL(s) ==
    LET nl == {k \in 1..Len(s) : s[k] = "\n"}
        \* position of the j-th newline; 0 before the first, Len + 1 after the last
        pos(j) == IF j = 0 THEN 0
                  ELSE IF j > Cardinality(nl) THEN Len(s) + 1
                  ELSE CHOOSE k \in nl : Cardinality({m \in nl : m < k}) = j - 1
    IN  [j \in 1..(Cardinality(nl) + 1) |-> SubSeq(s, pos(j - 1) + 1, pos(j) - 1)]

\* ------------------------------------------------------------- text runs
\* A NotionRichText: the content, the annotations object as the set of its
\* flags ({} when the key is absent) and the link as a sequence holding the
\* url (<<>> when the key is absent).
Run(content, ann, link) == [content |-> content, ann |-> ann, link |-> link]

NoLink == <<>>
NoAnn == {}

\* The body of the for loop of splitRichText, from offset i (0-based).
RECURSIVE SplitLoop(_, _, _, _, _)
SplitLoop(content, ann, link, i, items) ==
    IF i < Len(content)
    THEN LET chunk == Slice(content, i, i + NOTION_TEXT_LIMIT)
             item  == Run(chunk,
                          IF ann # {} THEN ann ELSE NoAnn,
                          IF link # <<>> THEN link ELSE NoLink)
         IN  SplitLoop(content, ann, link, i + NOTION_TEXT_LIMIT, Append(items, item))
    ELSE items

\* The loop of a splitRichText that steps by one character too many, so that
\* a chunk can exceed the limit.
RECURSIVE SplitLoopOver(_, _, _, _, _)
SplitLoopOver(content, ann, link, i, items) ==
    IF i < Len(content)
    THEN LET chunk == Slice(content, i, i + NOTION_TEXT_LIMIT + 1)
         IN  SplitLoopOver(content, ann, link, i + NOTION_TEXT_LIMIT + 1,
                           Append(items, Run(chunk, ann, link)))
    ELSE items

\* A splitRichText whose loop runs while i <= length, which emits an empty
\* trailing run when the length is a multiple of the limit.
RECURSIVE SplitLoopTrailing(_, _, _, _, _)
SplitLoopTrailing(content, ann, link, i, items) ==
    IF i <= Len(content)
    THEN LET chunk == Slice(content, i, i + NOTION_TEXT_LIMIT)
         IN  SplitLoopTrailing(content, ann, link, i + NOTION_TEXT_LIMIT,
                               Append(items, Run(chunk, ann, link)))
    ELSE items

splitRichTextTrailing(content, ann, link) ==
    Bind(content, LAMBDA c :
        IF Len(c) = 0 THEN <<Run(<<>>, NoAnn, NoLink)>>
        ELSE SplitLoopTrailing(c, ann, link, 0, <<>>))

splitRichTextOver(content, ann, link) ==
    Bind(content, LAMBDA c :
        IF Len(c) = 0 THEN <<Run(<<>>, NoAnn, NoLink)>>
        ELSE SplitLoopOver(c, ann, link, 0, <<>>))

splitRichText(content, ann, link) ==
    Bind(content, LAMBDA c :
        IF Len(c) = 0 THEN <<Run(<<>>, NoAnn, NoLink)>>
        ELSE SplitLoop(c, ann, link, 0, <<>>))

\* ------------------------------------------------------ inline pattern
\* One match of the pattern: the alternative that matched, its captured
\* content and url, and the position of the last character of the match.
NoMatch == [kind |-> "none", content |-> <<>>, url |-> <<>>, last |-> 0]

\* The first position q >= from where closer c1 (and c2 right after it, when
\* c2 is not "") stands; 0 when there is none.  A lazy group (.+?) followed by
\* a literal closer ends at the first occurrence of the closer.
FirstCloser(text, from, c1, c2) ==
    LET n == Len(text)
    IN  IF c2 = ""
        THEN First(from, n, LAMBDA q : text[q] = c1)
        ELSE First(from, n - 1, LAMBDA q : text[q] = c1 /\ text[q + 1] = c2)

\* \*\*(.+?)\*\* at p
MatchBold(text, p) ==
    IF p + 1 <= Len(text) /\ text[p] = "*" /\ text[p + 1] = "*"
    THEN LET q == FirstCloser(text, p + 3, "*", "*")
         IN  IF q = 0 THEN NoMatch
             ELSE [kind |-> "bold", content |-> SubSeq(text, p + 2, q - 1),
                   url |-> <<>>, last |-> q + 1]
    ELSE NoMatch

\* ~~(.+?)~~ at p
MatchStrike(text, p) ==
    IF p + 1 <= Len(text) /\ text[p] = "~" /\ text[p + 1] = "~"
    THEN LET q == FirstCloser(text, p + 3, "~", "~")
         IN  IF q = 0 THEN NoMatch
             ELSE [kind |-> "strikethrough", content |-> SubSeq(text, p + 2, q - 1),
                   url |-> <<>>, last |-> q + 1]
    ELSE NoMatch

\* BT(.+?)BT at p
MatchCode(text, p) ==
    IF text[p] = BT
    THEN LET q == FirstCloser(text, p + 2, BT, "")
         IN  IF q = 0 THEN NoMatch
             ELSE [kind |-> "code", content |-> SubSeq(text, p + 1, q - 1),
                   url |-> <<>>, last |-> q]
    ELSE NoMatch

\* \[(.+?)\]\((.+?)\) at p: the text ends at the first "](" that a ")" follows
\* at least one character later, the url at the first such ")".
MatchLink(text, p) ==
    IF text[p] = "["
    THEN LET q == FirstCloser(text, p + 2, "]", "(")
             r == IF q = 0 THEN 0 ELSE FirstCloser(text, q + 3, ")", "")
         IN  IF q = 0 \/ r = 0 THEN NoMatch
             ELSE [kind |-> "link", content |-> SubSeq(text, p + 1, q - 1),
                   url |-> SubSeq(text, q + 2, r - 1), last |-> r]
    ELSE NoMatch

\* \*(.+?)\* at p
MatchItalic(text, p) ==
    IF text[p] = "*"
    THEN LET q == FirstCloser(text, p + 2, "*", "")
         IN  IF q = 0 THEN NoMatch
             ELSE [kind |-> "italic", content |-> SubSeq(text, p + 1, q - 1),
                   url |-> <<>>, last |-> q]
    ELSE NoMatch

\* (https?:\/\/[^\s)]+) at p: the scheme, then the longest run of characters
\* that are neither white space nor ")".
MatchUrl(text, p) ==
    LET n  == Len(text)
        s1 == <<"h", "t", "t", "p", ":", "/", "/">>
        s2 == <<"h", "t", "t", "p", "s", ":", "/", "/">>
        at(pre) == p + Len(pre) - 1 <= n /\ SubSeq(text, p, p + Len(pre) - 1) = pre
        b  == IF at(s2) THEN p + Len(s2) ELSE IF at(s1) THEN p + Len(s1) ELSE 0
        stop == First(b, n, LAMBDA q : IsWs(text[q]) \/ text[q] = ")")
        e  == IF stop = 0 THEN n ELSE stop - 1
    IN  IF text[p] # "h" \/ b = 0 \/ e < b THEN NoMatch
        ELSE [kind |-> "url", content |-> SubSeq(text, p, e),
              url |-> SubSeq(text, p, e), last |-> e]

\* The alternation at p: the alternatives are tried in the order of the
\* pattern and the first one that matches wins.
MatchAt(text, p) ==
    LET bold   == MatchBold(text, p)
        strike == MatchStrike(text, p)
        code   == MatchCode(text, p)
        link   == MatchLink(text, p)
        italic == MatchItalic(text, p)
    IN  IF bold.kind # "none" THEN bold
        ELSE IF strike.kind # "none" THEN strike
        ELSE IF code.kind # "none" THEN code
        ELSE IF link.kind # "none" THEN link
        ELSE IF italic.kind # "none" THEN italic
        ELSE MatchUrl(text, p)

\* pattern.exec(text) with the g flag: the leftmost position, at or after
\* lastIndex (0-based), where the pattern matches; 0 when there is none.
ExecIndex(text, lastIndex) ==
    First(lastIndex + 1, Len(text), LAMBDA p : MatchAt(text, p).kind # "none")

\* The runs pushed for one match.
MatchItems(m) ==
    IF m.kind = "bold" THEN splitRichText(m.content, {"bold"}, NoLink)
    ELSE IF m.kind = "strikethrough" THEN splitRichText(m.content, {"strikethrough"}, NoLink)
    ELSE IF m.kind = "code" THEN splitRichText(m.content, {"code"}, NoLink)
    ELSE IF m.kind = "link" THEN <<Run(m.content, NoAnn, <<m.url>>)>>
    ELSE IF m.kind = "italic" THEN splitRichText(m.content, {"italic"}, NoLink)
    ELSE <<Run(m.content, NoAnn, <<m.url>>)>>

\* The while loop of parseInlineFormatting and the trailing plain text.
RECURSIVE ParseLoop(_, _, _)
ParseLoop(text, lastIndex, items) ==
    Bind(ExecIndex(text, lastIndex), LAMBDA p :
        IF p = 0
        THEN IF lastIndex < Len(text)
             THEN items \o splitRichText(Slice(text, lastIndex, Len(text)), NoAnn, NoLink)
             ELSE items
        ELSE Bind(MatchAt(text, p), LAMBDA m :
                 Bind(items \o (IF p - 1 > lastIndex
                                THEN splitRichText(Slice(text, lastIndex, p - 1), NoAnn, NoLink)
                                ELSE <<>>)
                            \o MatchItems(m),
                      LAMBDA pushed : ParseLoop(text, m.last, pushed))))

parseInlineFormatting(string) ==
    Bind(string, LAMBDA text :
        IF Len(text) = 0 \/ IsBlank(text)
        THEN <<Run(text, NoAnn, NoLink)>>
        ELSE Bind(ParseLoop(text, 0, <<>>), LAMBDA items :
                 IF Len(items) > 0 THEN items ELSE <<Run(text, NoAnn, NoLink)>>))

\* ------------------------------------------------- block-level patterns
IsDigit(c) == c \in {"0", "1", "2", "3", "4", "5", "6", "7", "8", "9"}

\* Length of the leading white space, the group (\s*) after ^.
LeadingWs(s) ==
    LET f == First(1, Len(s), LAMBDA k : ~IsWs(s[k]))
    IN  IF f = 0 THEN Len(s) ELSE f - 1

NoListMatch == [ok |-> FALSE, indent |-> 0, content |-> <<>>]

\* line.match(/^(\s*)[*\-]\s(.*)/): group 1's length and group 2.
BulletMatch(s) ==
    LET k == LeadingWs(s)
    IN  IF k + 2 <= Len(s) /\ s[k + 1] \in {"*", "-"} /\ IsWs(s[k + 2])
        THEN [ok |-> TRUE, indent |-> k, content |-> SubSeq(s, k + 3, Len(s))]
        ELSE NoListMatch

\* line.match(/^(\s*)\d+\.\s(.*)/): group 1's length and group 2.
NumMatch(s) ==
    LET k  == LeadingWs(s)
        nd == First(k + 1, Len(s), LAMBDA j : ~IsDigit(s[j]))
        e  == IF nd = 0 THEN Len(s) ELSE nd - 1   \* last digit
    IN  IF e >= k + 1 /\ e + 2 <= Len(s) /\ s[e + 1] = "." /\ IsWs(s[e + 2])
        THEN [ok |-> TRUE, indent |-> k, content |-> SubSeq(s, e + 3, Len(s))]
        ELSE NoListMatch

\* /^(-{3,}|\*{3,}|_{3,})$/.test(line.trim())
IsRule(s) ==
    LET t == Trim(s)
    IN  Len(t) >= 3 /\ \E c \in {"-", "*", "_"} : \A k \in 1..Len(t) : t[k] = c

Fence3 == <<BT, BT, BT>>
PlainText == <<"p", "l", "a", "i", "n", " ", "t", "e", "x", "t">>

\* line.trim().startsWith("```")
IsFence(s) == StartsWith(Trim(s), Fence3)

\* line.trim().slice(3).trim() || "plain text"
FenceLang(s) ==
    LET l == Trim(Slice(Trim(s), 3, Len(s)))
    IN  IF l = <<>> THEN PlainText ELSE l

\* Rule with the blank test on the raw line instead of the trimmed line.
RuleNoTrim(s) ==
    IF s = <<>> THEN "blank"
    ELSE IF StartsWith(s, <<"#", "#", "#", " ">>) THEN "heading_3"
    ELSE IF StartsWith(s, <<"#", "#", " ">>) THEN "heading_2"
    ELSE IF StartsWith(s, <<"#", " ">>) THEN "heading_1"
    ELSE IF IsRule(s) THEN "divider"
    ELSE IF IsFence(s) THEN "code"
    ELSE IF NumMatch(s).ok THEN "numbered_list_item"
    ELSE IF BulletMatch(s).ok THEN "bulleted_list_item"
    ELSE "paragraph"

\* The rule of markdownToNotionBlocks that takes a line: the first one, in
\* the order of the source, whose test succeeds.
Rule(s) ==
    IF IsBlank(s) THEN "blank"
    ELSE IF StartsWith(s, <<"#", "#", "#", " ">>) THEN "heading_3"
    ELSE IF StartsWith(s, <<"#", "#", " ">>) THEN "heading_2"
    ELSE IF StartsWith(s, <<"#", " ">>) THEN "heading_1"
    ELSE IF IsRule(s) THEN "divider"
    ELSE IF IsFence(s) THEN "code"
    ELSE IF NumMatch(s).ok THEN "numbered_list_item"
    ELSE IF BulletMatch(s).ok THEN "bulleted_list_item"
    ELSE "paragraph"

\* A NotionBlock.  children is <<>> when the key is absent, language is <<>>
\* for every type but code.  line is a history field, absent from the
\* source: the (1-based) index of the line the block was made from.
Block(type, rich_text, language, line) ==
    [type |-> type, rich_text |-> rich_text, children |-> <<>>,
     language |-> language, line |-> line]

\* The inner while loop of the fenced code rule, from cursor j: the cursor it
\* ends at and the lines it collected.
RECURSIVE FenceLoop(_, _, _)
FenceLoop(ls, j, codeLines) ==
    IF j <= Len(ls) /\ ~StartsWith(Trim(ls[j]), Fence3)
    THEN FenceLoop(ls, j + 1, Append(codeLines, ls[j]))
    ELSE [i |-> j, codeLines |-> codeLines]

\* The test of collectNestedListItems for a list line deeper than the parent.
ListMatch(s) == IF BulletMatch(s).ok THEN BulletMatch(s) ELSE NumMatch(s)

\* On a blank line at cursor c: whether the collector goes on (it looks at the
\* line right after the blank one).
PeekDeeper(ls, c, parentIndent) ==
    /\ c + 1 <= Len(ls)
    /\ ListMatch(ls[c + 1]).ok
    /\ ListMatch(ls[c + 1]).indent > parentIndent

\* ------------------------------------- the converter as a function
\* collectNestedListItems(lines, startIndex, parentIndent) from cursor c with
\* the children collected so far.
RECURSIVE CollectFrom(_, _, _, _)
CollectFrom(ls, c, indent, kids) ==
    IF c > Len(ls) THEN [children |-> kids, nextIndex |-> c]
    ELSE IF IsBlank(ls[c])
         THEN IF PeekDeeper(ls, c, indent)
              THEN CollectFrom(ls, c + 1, indent, kids)
              ELSE [children |-> kids, nextIndex |-> c]
         ELSE IF ~ListMatch(ls[c]).ok \/ ListMatch(ls[c]).indent <= indent
              THEN [children |-> kids, nextIndex |-> c]
              ELSE CollectFrom(ls, c + 1, indent,
                       Append(kids,
                           Block(IF BulletMatch(ls[c]).ok THEN "bulleted_list_item"
                                 ELSE "numbered_list_item",
                                 parseInlineFormatting(ListMatch(ls[c]).content), <<>>, c)))

\* The main loop of markdownToNotionBlocks from cursor k with the blocks
\* pushed so far.
RECURSIVE ConvertFrom(_, _, _)
ConvertFrom(ls, k, out) ==
    IF k > Len(ls) THEN out
    ELSE Bind(Rule(ls[k]), LAMBDA rule :
        IF rule = "blank" THEN ConvertFrom(ls, k + 1, out)
        ELSE IF rule \in {"heading_3", "heading_2", "heading_1"}
        THEN ConvertFrom(ls, k + 1, Append(out,
                 Block(rule,
                       parseInlineFormatting(Slice(ls[k],
                           IF rule = "heading_3" THEN 4 ELSE IF rule = "heading_2" THEN 3 ELSE 2,
                           Len(ls[k]))),
                       <<>>, k)))
        ELSE IF rule = "divider"
        THEN ConvertFrom(ls, k + 1, Append(out, Block("divider", <<>>, <<>>, k)))
        ELSE IF rule = "code"
        THEN Bind(FenceLoop(ls, k + 1, <<>>), LAMBDA r :
                 ConvertFrom(ls, IF r.i <= Len(ls) THEN r.i + 1 ELSE r.i,
                     Append(out, Block("code",
                         splitRichText(JoinNL(r.codeLines), NoAnn, NoLink),
                         FenceLang(ls[k]), k))))
        ELSE IF rule \in {"numbered_list_item", "bulleted_list_item"}
        THEN Bind(IF rule = "numbered_list_item" THEN NumMatch(ls[k]) ELSE BulletMatch(ls[k]),
                  LAMBDA m :
                 Bind(CollectFrom(ls, k + 1, m.indent, <<>>), LAMBDA nested :
                     ConvertFrom(ls, nested.nextIndex, Append(out,
                         [Block(rule, parseInlineFormatting(m.content), <<>>, k)
                             EXCEPT !.children = nested.children]))))
        ELSE ConvertFrom(ls, k + 1, Append(out,
                 Block("paragraph", parseInlineFormatting(ls[k]), <<>>, k))))

markdownToNotionBlocks(markdown) == ConvertFrom(SplitNL(markdown), 1, <<>>)

\* ------------------------------------------------------------- state
VARIABLES
    \* parseInlineFormatting / splitRichText called on their own
    fnName, fnArg, fnOut, fnPc,
    \* markdownToNotionBlocks: the lines, the cursor i, the blocks pushed so
    \* far, and where control is: "top" (head of the main loop), "collect"
    \* (head of the loop of collectNestedListItems) or "done" (returned)
    lines, i, blocks, pc,
    \* collectNestedListItems: its cursor, its children, its parentIndent, and
    \* the caller's list item waiting for them
    ci, children, parentIndent, pending,
    \* history: the cursors where the collector stopped on a non-blank line
    stopped,
    \* appendToNotionPageStep: where control is, input.blocks (<<>> when
    \* undefined, else <<the blocks>>), input.pageId, whether NOTION_API_KEY is
    \* set, the loop's offset, the calls issued and the number that completed
    apc, aInput, aPage, aAuth, aI, aCalls, aDone,
    \* notionCompanyAnalysisWorkflow: where control is, the webhook body, the
    \* locals companyName, pageId, analysis, properties and blocks
    wpc, body, companyName, pageId, analysis, properties, wBlocks,
    \* history: the model calls (generateText, generateObject) the run's steps
    \* have made, in order, each with whether it resolved
    wCalls

inlineVars == <<fnName, fnArg, fnOut, fnPc>>
convVars == <<lines, i, blocks, pc, ci, children, parentIndent, pending, stopped>>
appendVars == <<apc, aInput, aPage, aAuth, aI, aCalls, aDone>>
wfVars == <<wpc, body, companyName, pageId, analysis, properties, wBlocks, wCalls>>
vars == <<inlineVars, convVars, appendVars, wfVars>>

NoBlock == Block("none", <<>>, <<>>, 0)

InlineIdle == fnName = "none" /\ fnArg = <<>> /\ fnOut = <<>> /\ fnPc = "idle"
ConvIdle ==
    /\ lines = <<>> /\ i = 0 /\ blocks = <<>> /\ pc = "idle"
    /\ ci = 0 /\ children = <<>> /\ parentIndent = 0 /\ pending = NoBlock
    /\ stopped = {}

NoBody == [depth |-> 0, plain_text |-> <<>>, id |-> ""]

AppendIdle ==
    /\ apc = "idle" /\ aInput = <<>> /\ aPage = "" /\ aAuth = FALSE
    /\ aI = 0 /\ aCalls = <<>> /\ aDone = 0
WfIdle ==
    /\ wpc = "idle" /\ body = NoBody /\ companyName = <<>> /\ pageId = ""
    /\ analysis = <<>> /\ properties = <<>> /\ wBlocks = <<>> /\ wCalls = <<>>

\* ------------------------------------------------- inline formatter calls
\* Lengths of the contents given to splitRichText.
SplitLengths ==
    (0..SmallLen)
    \cup {k * NOTION_TEXT_LIMIT + d : k \in 1..MaxChunks, d \in (-Delta)..Delta}
    \cup {4500}

Anns == {NoAnn, {"bold"}, {"code"}}
Links == {NoLink, <<(<<"u">>)>>}

SplitArgs ==
    {[content |-> Cyc(n), ann |-> a, link |-> l] : n \in SplitLengths, a \in Anns, l \in Links}

Http == <<"h", "t", "t", "p", ":", "/", "/">>
Https == <<"h", "t", "t", "p", "s", ":", "/", "/">>
Over == Cyc(NOTION_TEXT_LIMIT + Delta)

\* Texts given to parseInlineFormatting.
FormatTexts ==
    { <<>>, <<" ">>, <<"\t", " ">>, Rep(" ", NOTION_TEXT_LIMIT + Delta),
      <<"a", "b">>, <<"a", " ", "b">>, Over, Cyc(2 * NOTION_TEXT_LIMIT + Delta),
      <<"*", "*", "b", "*", "*">>, <<"~", "~", "s", "~", "~">>, <<BT, "c", BT>>,
      <<"[", "t", "]", "(", "u", ")">>, <<"*", "i", "*">>,
      Http \o <<"x">>, Https \o <<"x", " ", "y">>, <<"(">> \o Http \o <<"x", ")">>,
      <<"a", " ">> \o <<"*", "*", "b", "*", "*">> \o <<" ", "c">>,
      <<"*", "*", "b", "*", "*", " ", "a", "n", "d", " ", "*", "i", "*">>,
      <<"*", "*", "a", "*">>, <<"*", "*", "*", "a", "*", "*">>,
      <<"[", "a", "]", "(", ")", "b", ")">>, <<"[", "a", "]">>, <<"a", "*", "b">>,
      <<"h", "t", "t", "p">>, Http, <<"~", "~", "~", "~">>, <<BT, BT>>,
      <<"*", "*">> \o Over \o <<"*", "*">>,
      <<"*">> \o Over \o <<"*">>,
      <<BT>> \o Over \o <<BT>>,
      <<"[">> \o Over \o <<"]", "(", "u", ")">>,
      <<"[", "t", "]", "(">> \o Over \o <<")">>,
      Http \o Over,
      Over \o <<" ">> \o <<"*", "i", "*">> \o <<" ">> \o Over }

InlineInit ==
    /\ ConvIdle /\ AppendIdle /\ WfIdle
    /\ fnPc = "ready"
    /\ fnOut = <<>>
    /\ \/ fnName = "splitRichText" /\ fnArg \in SplitArgs
       \/ /\ fnName = "parseInlineFormatting"
          /\ fnArg \in {[content |-> t, ann |-> NoAnn, link |-> NoLink] : t \in FormatTexts}

CallSplitRichText ==
    /\ fnPc = "ready"
    /\ fnName = "splitRichText"
    /\ fnOut' = splitRichText(fnArg.content, fnArg.ann, fnArg.link)
    /\ fnPc' = "done"
    /\ UNCHANGED <<fnName, fnArg, convVars, appendVars, wfVars>>

CallParseInlineFormatting ==
    /\ fnPc = "ready"
    /\ fnName = "parseInlineFormatting"
    /\ fnOut' = parseInlineFormatting(fnArg.content)
    /\ fnPc' = "done"
    /\ UNCHANGED <<fnName, fnArg, convVars, appendVars, wfVars>>

InlineNext == CallSplitRichText \/ CallParseInlineFormatting

SpecInline == InlineInit /\ [][InlineNext]_vars

\* ------------------------------------------------ markdownToNotionBlocks
\* The lines the short documents are made of: a blank line, a bulleted item,
\* a nested bulleted item, a numbered item, a fence, a fence with a language
\* and a plain line.
BaseLines ==
    { <<>>, <<"-", " ", "a">>, <<" ", " ", "-", " ", "b">>, <<"1", ".", " ", "c">>,
      Fence3, Fence3 \o <<"p", "y">>, <<"x">> }

ShortDocs == {JoinNL(ls) : ls \in UNION {[1..n -> BaseLines] : n \in 0..MaxLines}}

\* Documents given line by line, for the rules and the characters that the
\* short documents leave out, and for the contents beyond the text limit.
ExtraDocLines ==
    { <<(<<"#", " ", "h">>)>>, <<(<<"#", "#", " ", "h">>)>>, <<(<<"#", "#", "#", " ", "h">>)>>,
      <<(<<"#", "h">>)>>, <<(<<"#", "#", "#", "#", " ", "h">>)>>, <<(<<" ", "#", " ", "h">>)>>,
      <<(<<"-", "-", "-">>)>>, <<(<<"*", "*", "*">>)>>, <<(<<"_", "_", "_", "_">>)>>,
      <<(<<"-", "-">>)>>, <<(<<" ", "-", "-", "-", " ">>)>>, <<(<<"-", " ", "-", " ", "-">>)>>,
      <<(<<"-", "-", "*">>)>>, <<(<<"-", " ">>)>>, <<(<<"-", "a">>)>>, <<(<<"1", ".", "c">>)>>,
      <<(<<"1", "2", ".", " ", "c">>)>>, <<(<<"1", " ", "c">>)>>, <<(<<"*", " ", "a">>)>>,
      <<(<<" ">>)>>, <<(<<"\t">>), <<" ", " ">>>>,
      <<(<<"x">>), <<" ">>, <<"x">>>>,
      <<(<<"-", " ", "a">>), <<" ">>, <<" ", " ", "-", " ", "b">>>>,
      <<(<<"-", " ", "a">>), <<>>, <<>>, <<>>, <<" ", " ", "-", " ", "b">>>>,
      <<(<<"-", " ", "a">>), <<>>, <<" ", " ", "x">>>>,
      <<(<<"-", " ", "a">>), <<" ", " ", "x">>>>,
      <<(<<"-", " ", "a">>), <<" ", " ", "#", " ", "h">>>>,
      <<(<<"-", " ", "a">>), <<" ", " ", "-", "-", "-">>>>,
      <<(<<"1", ".", " ", "c">>), <<" ", " ", " ", "2", ".", " ", "d">>, <<" ", " ", " ", "-", " ", "e">>>>,
      <<(<<"1", ".", " ", "c">>), <<"2", ".", " ", "d">>>>,
      <<(<<"-", " ", "a">>), <<" ", " ", "-", " ", "b">>,
        <<" ", " ", " ", " ", "-", " ", "e">>, <<" ", "*", " ", "f">>, <<"-", " ", "g">>>>,
      <<(<<" ", " ", "-", " ", "b">>), <<" ", " ", "-", " ", "b">>, <<" ", "-", " ", "f">>,
        <<" ", " ", " ", "1", ".", " ", "c">>>>,
      <<(<<" ", " ", "-", " ", "b">>), <<>>, <<" ", " ", "-", " ", "b">>>>,
      <<(<<" ", " ">> \o Fence3), <<" ", "x">>, <<" ">> \o Fence3 \o <<" ">>, <<"x">>>>,
      <<(Fence3 \o <<" ", "j", "s", " ">>), <<"#", " ", "h">>, <<>>, <<"-", " ", "a">>>>,
      <<(<<"-", " ", "a">>), <<" ", " ">> \o Fence3, <<" ", " ", "-", " ", "b">>>>,
      <<(<<"*", "*", "b", "*", "*", " ", "a", "n", "d", " ", "*", "i", "*">>)>>,
      <<(<<"-", " ", "*", "*", "b", "*", "*">>), <<" ", " ", "-", " ", BT, "c", BT>>>>,
      <<(<<"#", " ", "[", "t", "]", "(", "u", ")">>)>>,
      <<(<<"1", ".", " ">> \o Http \o <<"x">>)>>,
      <<Over>>, <<(<<"#", " ">> \o Over)>>, <<(<<"-", " ">> \o Over), <<" ", "-", " ">> \o Over>>,
      <<(<<"*", "*">> \o Over \o <<"*", "*">>)>>,
      <<Fence3, Over, Over>>, <<Fence3, Cyc(NOTION_TEXT_LIMIT), Fence3>>,
      <<(<<"[">> \o Over \o <<"]", "(", "u", ")">>)>>,
      <<(<<"-", " ", "a">>), <<" ", "-", " ">> \o Http \o Over>>,
      <<(<<"#", " ">> \o Rep(" ", NOTION_TEXT_LIMIT + Delta))>>,
      <<(<<"x">>), <<>>, <<"-", " ", "a">>, <<" ", " ", "-", " ", "b">>, <<>>,
        <<" ", " ", "1", ".", " ", "c">>, Fence3, <<"y">>, <<>>, Fence3, <<"z">>>> }

Docs == ShortDocs \cup {JoinNL(ls) : ls \in ExtraDocLines}

ConvInit ==
    /\ InlineIdle /\ AppendIdle /\ WfIdle
    /\ \E markdown \in Docs : lines = SplitNL(markdown)
    /\ i = 1
    /\ blocks = <<>>
    /\ pc = "top"
    /\ ci = 0 /\ children = <<>> /\ parentIndent = 0 /\ pending = NoBlock
    /\ stopped = {}

AtLine == pc = "top" /\ i <= Len(lines)
collectorVars == <<ci, children, parentIndent, pending, stopped>>

\* if (line.trim() === "") { i++; continue }
SkipBlank ==
    /\ AtLine /\ Rule(lines[i]) = "blank"
    /\ i' = i + 1
    /\ UNCHANGED <<lines, blocks, pc, collectorVars, inlineVars, appendVars, wfVars>>

\* A block made of a line's inline-formatted text: push it and move on.
PushText(type, text) ==
    /\ blocks' = Append(blocks, Block(type, parseInlineFormatting(text), <<>>, i))
    /\ i' = i + 1
    /\ UNCHANGED <<lines, pc, collectorVars, inlineVars, appendVars, wfVars>>

Heading3 == AtLine /\ Rule(lines[i]) = "heading_3" /\ PushText("heading_3", Slice(lines[i], 4, Len(lines[i])))
Heading2 == AtLine /\ Rule(lines[i]) = "heading_2" /\ PushText("heading_2", Slice(lines[i], 3, Len(lines[i])))
Heading1 == AtLine /\ Rule(lines[i]) = "heading_1" /\ PushText("heading_1", Slice(lines[i], 2, Len(lines[i])))

Divider ==
    /\ AtLine /\ Rule(lines[i]) = "divider"
    /\ blocks' = Append(blocks, Block("divider", <<>>, <<>>, i))
    /\ i' = i + 1
    /\ UNCHANGED <<lines, pc, collectorVars, inlineVars, appendVars, wfVars>>

\* The fenced code rule: the opening line, the lines up to the closing one,
\* and the closing line when there is one.
FencedCode ==
    /\ AtLine /\ Rule(lines[i]) = "code"
    /\ LET r == FenceLoop(lines, i + 1, <<>>)
       IN  /\ i' = IF r.i <= Len(lines) THEN r.i + 1 ELSE r.i
           /\ blocks' = Append(blocks,
                  Block("code", splitRichText(JoinNL(r.codeLines), NoAnn, NoLink),
                        FenceLang(lines[i]), i))
    /\ UNCHANGED <<lines, pc, collectorVars, inlineVars, appendVars, wfVars>>

\* A list line: the call of collectNestedListItems(lines, i + 1, indent); the
\* item is pushed when the collector returns.
EnterList(type, m) ==
    /\ pending' = Block(type, parseInlineFormatting(m.content), <<>>, i)
    /\ parentIndent' = m.indent
    /\ ci' = i + 1
    /\ children' = <<>>
    /\ pc' = "collect"
    /\ UNCHANGED <<lines, i, blocks, stopped, inlineVars, appendVars, wfVars>>

NumberedItem ==
    AtLine /\ Rule(lines[i]) = "numbered_list_item"
           /\ EnterList("numbered_list_item", NumMatch(lines[i]))

BulletedItem ==
    AtLine /\ Rule(lines[i]) = "bulleted_list_item"
           /\ EnterList("bulleted_list_item", BulletMatch(lines[i]))

\* Paragraph that moves on without pushing a block for the line.
ParagraphSkipped ==
    /\ AtLine /\ Rule(lines[i]) = "paragraph"
    /\ i' = i + 1
    /\ UNCHANGED <<lines, blocks, pc, collectorVars, inlineVars, appendVars, wfVars>>

Paragraph == AtLine /\ Rule(lines[i]) = "paragraph" /\ PushText("paragraph", lines[i])

\* return blocks
Return ==
    /\ pc = "top" /\ i > Len(lines)
    /\ pc' = "done"
    /\ UNCHANGED <<lines, i, blocks, collectorVars, inlineVars, appendVars, wfVars>>

\* CollectorMove that leaves a list line deeper than the first child to a
\* further level of nesting instead of collecting it.
CollectorMoveByLevel(ls, c, indent) ==
    IF c > Len(ls) THEN "stop"
    ELSE IF IsBlank(ls[c])
         THEN IF PeekDeeper(ls, c, indent) THEN "skip" ELSE "stop"
         ELSE IF ~ListMatch(ls[c]).ok \/ ListMatch(ls[c]).indent <= indent
              THEN "stop"
              ELSE IF children # <<>>
                      /\ ListMatch(ls[c]).indent > ListMatch(ls[children[1].line]).indent
                   THEN "stop" ELSE "child"

\* ------------------------------------------------ collectNestedListItems
\* What the collector does at its cursor: "skip" a blank line, push a
\* "child", or "stop" (the loop's test fails, or a break).
CollectorMove(ls, c, indent) ==
    IF c > Len(ls) THEN "stop"
    ELSE IF IsBlank(ls[c])
         THEN IF PeekDeeper(ls, c, indent) THEN "skip" ELSE "stop"
         ELSE IF ~ListMatch(ls[c]).ok \/ ListMatch(ls[c]).indent <= indent
              THEN "stop" ELSE "child"

CollectSkipBlank ==
    /\ pc = "collect" /\ CollectorMove(lines, ci, parentIndent) = "skip"
    /\ ci' = ci + 1
    /\ UNCHANGED <<lines, i, blocks, pc, children, parentIndent, pending, stopped, inlineVars, appendVars, wfVars>>

\* CollectChild that puts the new child before the children collected so far.
CollectChildFirst ==
    /\ pc = "collect" /\ CollectorMove(lines, ci, parentIndent) = "child"
    /\ LET blockType == IF BulletMatch(lines[ci]).ok
                        THEN "bulleted_list_item" ELSE "numbered_list_item"
           content   == ListMatch(lines[ci]).content
       IN  children' = <<Block(blockType, parseInlineFormatting(content), <<>>, ci)>>
                          \o children
    /\ ci' = ci + 1
    /\ UNCHANGED <<lines, i, blocks, pc, parentIndent, pending, stopped, inlineVars, appendVars, wfVars>>

CollectChild ==
    /\ pc = "collect" /\ CollectorMove(lines, ci, parentIndent) = "child"
    /\ LET blockType == IF BulletMatch(lines[ci]).ok
                        THEN "bulleted_list_item" ELSE "numbered_list_item"
           content   == ListMatch(lines[ci]).content
       IN  children' = Append(children,
               Block(blockType, parseInlineFormatting(content), <<>>, ci))
    /\ ci' = ci + 1
    /\ UNCHANGED <<lines, i, blocks, pc, parentIndent, pending, stopped, inlineVars, appendVars, wfVars>>

\* CollectStop with the caller resuming one line before nextIndex.
CollectStopBehind ==
    /\ pc = "collect" /\ CollectorMove(lines, ci, parentIndent) = "stop"
    /\ blocks' = Append(blocks, [pending EXCEPT !.children = children])
    /\ i' = ci - 1
    /\ pc' = "top"
    /\ stopped' = IF ci <= Len(lines) /\ ~IsBlank(lines[ci])
                  THEN stopped \cup {ci} ELSE stopped
    /\ pending' = NoBlock
    /\ children' = <<>>
    /\ UNCHANGED <<lines, ci, parentIndent, inlineVars, appendVars, wfVars>>

\* CollectStop with the caller resuming one line after the line the
\* collector stopped on.
CollectStopPast ==
    /\ pc = "collect" /\ CollectorMove(lines, ci, parentIndent) = "stop"
    /\ blocks' = Append(blocks, [pending EXCEPT !.children = children])
    /\ i' = IF ci <= Len(lines) THEN ci + 1 ELSE ci
    /\ pc' = "top"
    /\ stopped' = IF ci <= Len(lines) /\ ~IsBlank(lines[ci])
                  THEN stopped \cup {ci} ELSE stopped
    /\ pending' = NoBlock
    /\ children' = <<>>
    /\ UNCHANGED <<lines, ci, parentIndent, inlineVars, appendVars, wfVars>>

\* The collector returns {children, nextIndex: ci}; the caller attaches the
\* children when there are some, pushes the item and resumes at nextIndex.
CollectStop ==
    /\ pc = "collect" /\ CollectorMove(lines, ci, parentIndent) = "stop"
    /\ blocks' = Append(blocks, [pending EXCEPT !.children = children])
    /\ i' = ci
    /\ pc' = "top"
    /\ stopped' = IF ci <= Len(lines) /\ ~IsBlank(lines[ci])
                  THEN stopped \cup {ci} ELSE stopped
    /\ pending' = NoBlock
    /\ children' = <<>>
    /\ UNCHANGED <<lines, ci, parentIndent, inlineVars, appendVars, wfVars>>

ConvNext ==
    \/ SkipBlank \/ Heading3 \/ Heading2 \/ Heading1 \/ Divider \/ FencedCode
    \/ NumberedItem \/ BulletedItem \/ Paragraph \/ Return
    \/ CollectSkipBlank \/ CollectChild \/ CollectStop

SpecConvert == ConvInit /\ [][ConvNext]_vars

\* ------------------------------------------------ appendToNotionPageStep
PageIds == {"page-1", "page-2"}

\* Numbers of blocks given to the step when it is called on its own.
AppendLengths ==
    (0..SmallBlocks)
    \cup {b * BATCH_SIZE + d : b \in 1..MaxBatches, d \in (-Delta)..Delta}

\* The step called on its own: blocks undefined, or n blocks (each stands
\* for itself as its position in the input).
AppendInit ==
    /\ InlineIdle /\ ConvIdle /\ WfIdle
    /\ apc = "entry"
    /\ aInput \in {<<>>} \cup {<<[k \in 1..n |-> k]>> : n \in AppendLengths}
    /\ aPage \in PageIds
    /\ aAuth \in BOOLEAN
    /\ aI = 0 /\ aCalls = <<>> /\ aDone = 0

\* The two tests before the loop: no blocks returns success at once, no
\* NOTION_API_KEY throws.
AppendBegin ==
    /\ apc = "entry"
    /\ apc' = IF aInput = <<>> \/ Len(aInput[1]) = 0 THEN "returned"
              ELSE IF ~aAuth THEN "thrown"
              ELSE "loop"
    /\ UNCHANGED <<aInput, aPage, aAuth, aI, aCalls, aDone, wfVars, inlineVars, convVars>>

\* A pass of the loop up to the await: the batch is cut and the call is made
\* with the batch after the one that keeps the last block for the next call.
AppendIssueShort ==
    /\ apc = "loop" /\ aI < Len(aInput[1])
    /\ aCalls' = Append(aCalls,
           [block_id |-> aPage, children |-> Slice(aInput[1], aI, aI + BATCH_SIZE - 1)])
    /\ apc' = "await"
    /\ UNCHANGED <<aInput, aPage, aAuth, aI, aDone, wfVars, inlineVars, convVars>>

\* A pass of the loop up to the await: the batch is cut and the call is made.
AppendIssue ==
    /\ apc = "loop" /\ aI < Len(aInput[1])
    /\ aCalls' = Append(aCalls,
           [block_id |-> aPage, children |-> Slice(aInput[1], aI, aI + BATCH_SIZE)])
    /\ apc' = "await"
    /\ UNCHANGED <<aInput, aPage, aAuth, aI, aDone, wfVars, inlineVars, convVars>>

\* The awaited call resolves: i += BATCH_SIZE and the loop goes on.
AppendComplete ==
    /\ apc = "await"
    /\ aDone' = aDone + 1
    /\ aI' = aI + BATCH_SIZE
    /\ apc' = "loop"
    /\ UNCHANGED <<aInput, aPage, aAuth, aCalls, wfVars, inlineVars, convVars>>

\* The awaited call rejects: the step throws.
AppendFail ==
    /\ apc = "await"
    /\ apc' = "thrown"
    /\ UNCHANGED <<aInput, aPage, aAuth, aI, aCalls, aDone, wfVars, inlineVars, convVars>>

\* The loop's test fails: return { success: true }.
AppendReturn ==
    /\ apc = "loop" /\ aI >= Len(aInput[1])
    /\ apc' = "returned"
    /\ UNCHANGED <<aInput, aPage, aAuth, aI, aCalls, aDone, wfVars, inlineVars, convVars>>

\* ------------------------------------------- formatNotionPropertiesStep
EmptyObject == <<>>

\* A property of the generated object: the field it holds and its value,
\* <<>> for null (and for an empty rich_text array), else <<the value>>.
Prop(field, value) == [field |-> field, value |-> value]

\* Objects the structured generation may return.
GenObjects ==
    { EmptyObject,
      ("Industry" :> Prop("select", <<"SaaS">>) @@ "Website" :> Prop("url", <<"https://x">>)),
      ("Industry" :> Prop("select", <<>>) @@ "Region" :> Prop("select", <<"Europe">>)
         @@ "Website" :> Prop("url", <<>>) @@ "ARR" :> Prop("number", <<>>)
         @@ "Notes" :> Prop("rich_text", <<>>)),
      ("Region" :> Prop("undefined", <<>>) @@ "ARR" :> Prop("number", <<120>>)
         @@ "Notes" :> Prop("rich_text", <<"summary">>)) }

\* The tests of filterNullProperties that drop a property.
Dropped(value) ==
    \/ value.field = "undefined"
    \/ value.field = "select" /\ value.value = <<>>
    \/ value.field = "url" /\ value.value = <<>>
    \/ value.field = "number" /\ value.value = <<>>
    \/ value.field = "rich_text" /\ value.value = <<>>

filterNullProperties(object) ==
    [key \in {k \in DOMAIN object : ~Dropped(object[k])} |-> object[key]]

\* ---------------------------------------- notionCompanyAnalysisWorkflow
Acme == <<"A", "c", "m", "e">>

\* Webhook bodies: depth is the number of links of the chain
\* body.data.properties["Account Name"].title[0] that exist (6: all, and
\* plain_text is then title[0].plain_text, <<>> when empty or undefined).
Bodies ==
    {[depth |-> d, plain_text |-> <<>>, id |-> "page-1"] : d \in 0..5}
    \cup {[depth |-> 6, plain_text |-> t, id |-> p] : t \in {<<>>, <<" ">>, Acme}, p \in PageIds}

\* body?.data?.properties?.["Account Name"]?.title?.[0]?.plain_text
AccountName(b) == IF b.depth = 6 THEN b.plain_text ELSE <<>>

\* Texts the analysis step may return.
AnalysisTexts ==
    { <<>>, <<" ", "\n", " ">>, <<"#", " ", "h">>,
      <<"x", "\n", "-", " ", "a", "\n", " ", " ", "-", " ", "b">> }

WfInit ==
    /\ InlineIdle /\ ConvIdle
    /\ wpc = "start"
    /\ body \in Bodies
    /\ companyName = <<>> /\ pageId = "" /\ analysis = <<>>
    /\ properties = EmptyObject /\ wBlocks = <<>> /\ wCalls = <<>>
    /\ apc = "idle" /\ aInput = <<>> /\ aPage = "" /\ aAuth \in BOOLEAN
    /\ aI = 0 /\ aCalls = <<>> /\ aDone = 0

\* WfValidate without the test of the webhook body.
WfValidateUnchecked ==
    /\ wpc = "start"
    /\ wpc' = "analyze"
    /\ companyName' = AccountName(body)
    /\ pageId' = body.id
    /\ UNCHANGED <<body, analysis, properties, wBlocks, wCalls, appendVars, inlineVars, convVars>>

\* The test of the webhook body and the two locals read from it.
WfValidate ==
    /\ wpc = "start"
    /\ IF AccountName(body) = <<>>
       THEN wpc' = "thrown" /\ UNCHANGED <<companyName, pageId>>
       ELSE /\ wpc' = "analyze"
            /\ companyName' = AccountName(body)
            /\ pageId' = body.id
    /\ UNCHANGED <<body, analysis, properties, wBlocks, wCalls, appendVars, inlineVars, convVars>>

\* text.trim().length === 0 for a text of several lines: trim also strips
\* the line terminators.
IsBlankText(s) == \A k \in 1..Len(s) : IsWs(s[k]) \/ s[k] = "\n"

\* A model call and whether it resolved (ok) or rejected.
Call(name, ok) == [call |-> name, ok |-> ok]

\* analyzeCompanyStep: a blank company name throws.
AnalyzeReject ==
    /\ wpc = "analyze" /\ (Len(companyName) = 0 \/ IsBlankText(companyName))
    /\ wpc' = "thrown"
    /\ UNCHANGED <<body, companyName, pageId, analysis, properties, wBlocks, wCalls,
                   appendVars, inlineVars, convVars>>

\* analyzeCompanyStep: generateText resolves and its text is returned.
AnalyzeReturn ==
    /\ wpc = "analyze" /\ ~(Len(companyName) = 0 \/ IsBlankText(companyName))
    /\ wCalls' = Append(wCalls, Call("generateText", TRUE))
    /\ analysis' \in AnalysisTexts
    /\ wpc' = "format"
    /\ UNCHANGED <<body, companyName, pageId, properties, wBlocks,
                   appendVars, inlineVars, convVars>>

\* analyzeCompanyStep: generateText rejects.
AnalyzeFail ==
    /\ wpc = "analyze" /\ ~(Len(companyName) = 0 \/ IsBlankText(companyName))
    /\ wCalls' = Append(wCalls, Call("generateText", FALSE))
    /\ wpc' = "thrown"
    /\ UNCHANGED <<body, companyName, pageId, analysis, properties, wBlocks,
                   appendVars, inlineVars, convVars>>

\* The workflow's destructuring of the step's result { properties }: the
\* result has no blocks key, so blocks is undefined.
FormatResult(props) ==
    /\ properties' = props
    /\ wBlocks' = <<>>
    /\ wpc' = "append"
    /\ UNCHANGED <<body, companyName, pageId, analysis, appendVars, inlineVars, convVars>>

\* formatNotionPropertiesStep on an empty or blank analysis text.
FormatEmpty ==
    /\ wpc = "format" /\ (Len(analysis) = 0 \/ IsBlankText(analysis))
    /\ UNCHANGED wCalls
    /\ FormatResult(EmptyObject)

\* FormatGenerated without the filter of the generated object.
FormatGeneratedUnfiltered ==
    /\ wpc = "format" /\ ~(Len(analysis) = 0 \/ IsBlankText(analysis))
    /\ wCalls' = Append(wCalls, Call("generateObject", TRUE))
    /\ \E object \in GenObjects : FormatResult(object)

\* formatNotionPropertiesStep: generateObject resolves.
FormatGenerated ==
    /\ wpc = "format" /\ ~(Len(analysis) = 0 \/ IsBlankText(analysis))
    /\ wCalls' = Append(wCalls, Call("generateObject", TRUE))
    /\ \E object \in GenObjects : FormatResult(filterNullProperties(object))

\* formatNotionPropertiesStep: generateObject rejects and the catch returns
\* empty properties.
FormatGenerationFailed ==
    /\ wpc = "format" /\ ~(Len(analysis) = 0 \/ IsBlankText(analysis))
    /\ wCalls' = Append(wCalls, Call("generateObject", FALSE))
    /\ FormatResult(EmptyObject)

\* await appendToNotionPageStep({ pageId, blocks }): the call.
WfCallAppend ==
    /\ wpc = "append"
    /\ apc' = "entry" /\ aInput' = wBlocks /\ aPage' = pageId
    /\ wpc' = "appending"
    /\ UNCHANGED <<aAuth, aI, aCalls, aDone, body, companyName, pageId, analysis,
                   properties, wBlocks, wCalls, inlineVars, convVars>>

\* The awaited append step settles: when it returned, the workflow returns
\* { properties, pageId }; when it threw, so does the workflow.
WfAppendSettled ==
    /\ wpc = "appending" /\ apc \in {"returned", "thrown"}
    /\ wpc' = apc
    /\ UNCHANGED <<body, companyName, pageId, analysis, properties, wBlocks, wCalls,
                   appendVars, inlineVars, convVars>>

PipelineInit == WfInit \/ AppendInit

PipelineNext ==
    \/ WfValidate \/ AnalyzeReject \/ AnalyzeReturn \/ AnalyzeFail
    \/ FormatEmpty \/ FormatGenerated \/ FormatGenerationFailed
    \/ WfCallAppend \/ WfAppendSettled
    \/ AppendBegin \/ AppendIssue \/ AppendComplete \/ AppendFail \/ AppendReturn

SpecPipeline == PipelineInit /\ [][PipelineNext]_vars

\* ================================================================ claims
\* Definitions of the properties, written apart from the model's own.
WhitespaceOnly(s) == \A k \in 1..Len(s) : s[k] \in {" ", "\t"}
Ceil(n, d) == (n + d - 1) \div d

RECURSIVE ConcatContents(_)
ConcatContents(runs) ==
    IF runs = <<>> THEN <<>> ELSE runs[1].content \o ConcatContents(Tail(runs))

RECURSIVE ConcatChildren(_)
ConcatChildren(calls) ==
    IF calls = <<>> THEN <<>> ELSE calls[1].children \o ConcatChildren(Tail(calls))

RunsWithinLimit(runs) == \A k \in 1..Len(runs) : Len(runs[k].content) <= NOTION_TEXT_LIMIT

\* Every block made so far: those pushed and the list item waiting for its
\* children.
TopBlocks == IF pending = NoBlock THEN blocks ELSE Append(blocks, pending)

\* Number of nested children attached to the blocks of bs.
RECURSIVE CountChildren(_)
CountChildren(bs) ==
    IF bs = <<>> THEN 0 ELSE Len(bs[1].children) + CountChildren(Tail(bs))

\* C1: every text run emitted by parseInlineFormatting, and every text run of
\* every block and nested child made by markdownToNotionBlocks, has a content
\* of at most NOTION_TEXT_LIMIT characters.
C1_RunsWithinLimit ==
    /\ fnPc = "done" /\ fnName = "parseInlineFormatting" => RunsWithinLimit(fnOut)
    /\ \A k \in 1..Len(TopBlocks) :
          /\ RunsWithinLimit(TopBlocks[k].rich_text)
          /\ \A c \in 1..Len(TopBlocks[k].children) :
                RunsWithinLimit(TopBlocks[k].children[c].rich_text)
    /\ \A c \in 1..Len(children) : RunsWithinLimit(children[c].rich_text)

\* The first line after line s whose trimmed form is exactly three
\* backticks; one past the last line when there is none.
BareFenceAfter(ls, s) ==
    LET S == {j \in (s + 1)..Len(ls) : Trim(ls[j]) = Fence3}
    IN  IF S = {} THEN Len(ls) + 1 ELSE MinOf(S)

\* C2: a code block opened on line s holds, verbatim, the lines after s up to
\* the first line whose trimmed form is exactly three backticks (or up to
\* the end of the input); those lines and the closing line yield no other
\* block.
C2_FenceClosesOnBareFence ==
    \A k \in 1..Len(blocks) :
        blocks[k].type = "code" =>
            LET s == blocks[k].line
                e == BareFenceAfter(lines, s)
            IN  /\ ConcatContents(blocks[k].rich_text) = JoinNL(SubSeq(lines, s + 1, e - 1))
                /\ \A m \in 1..Len(blocks) : ~(blocks[m].line > s /\ blocks[m].line <= e)

\* Whether the first non-blank line after line c is a list line indented
\* deeper than indent.
NextNonBlankIsDeeper(ls, c, indent) ==
    LET S == {j \in (c + 1)..Len(ls) : ~WhitespaceOnly(ls[j])}
    IN  /\ S # {}
        /\ ListMatch(ls[MinOf(S)]).ok
        /\ ListMatch(ls[MinOf(S)]).indent > indent

\* C3: with the collector on a blank line, the line is skipped when the next
\* non-blank line is a list line deeper than parentIndent, and in every other
\* case the collector stops with nextIndex on the blank line.
C3_BlankSkippedIffDeeperFollows ==
    [][ (pc = "collect" /\ ci <= Len(lines) /\ WhitespaceOnly(lines[ci])) =>
            IF NextNonBlankIsDeeper(lines, ci, parentIndent)
            THEN pc' = "collect" /\ ci' = ci + 1
            ELSE pc' = "top" /\ i' = ci ]_vars

\* C4: the top-level blocks and the nested children together are never more
\* than the lines of the input, and none of them is made from a blank line.
C4_BlocksBoundedByLines ==
    /\ Len(TopBlocks) + CountChildren(TopBlocks) + Len(children) <= Len(lines)
    /\ \A k \in 1..Len(TopBlocks) :
          /\ ~WhitespaceOnly(lines[TopBlocks[k].line])
          /\ \A c \in 1..Len(TopBlocks[k].children) :
                ~WhitespaceOnly(lines[TopBlocks[k].children[c].line])
    /\ \A c \in 1..Len(children) : ~WhitespaceOnly(lines[children[c].line])

\* C4's case: a finished conversion of lines with a blank one among them, with
\* a nested child, that made exactly one block for each non-blank line.
C4_Witness ==
    /\ pc = "done"
    /\ \E k \in 1..Len(lines) : WhitespaceOnly(lines[k])
    /\ CountChildren(blocks) > 0
    /\ Len(blocks) + CountChildren(blocks)
          = Cardinality({k \in 1..Len(lines) : ~WhitespaceOnly(lines[k])})

\* One pass of a loop of the converter: the cursor of the loop that made the
\* pass grows, or the loop stops; the collector hands back an index that is
\* not before the one it started at (i + 1); a line that no other rule takes
\* is pushed as a paragraph.
C5_Pass ==
    /\ pc = "top" /\ i <= Len(lines) =>
          \/ pc' = "top" /\ i' > i /\ i' <= Len(lines) + 1
          \/ pc' = "collect" /\ ci' = i + 1 /\ i' = i
    /\ pc = "top" /\ i > Len(lines) => pc' = "done"
    /\ pc = "collect" =>
          \/ pc' = "collect" /\ ci' = ci + 1 /\ ci' <= Len(lines) + 1
          \/ pc' = "top" /\ i' = ci /\ i' >= i + 1
    /\ ( /\ pc = "top" /\ i <= Len(lines)
         /\ ~WhitespaceOnly(lines[i])
         /\ ~StartsWith(lines[i], <<"#", " ">>)
         /\ ~StartsWith(lines[i], <<"#", "#", " ">>)
         /\ ~StartsWith(lines[i], <<"#", "#", "#", " ">>)
         /\ ~IsRule(lines[i]) /\ ~IsFence(lines[i])
         /\ ~NumMatch(lines[i]).ok /\ ~BulletMatch(lines[i]).ok )
       => /\ Len(blocks') = Len(blocks) + 1
          /\ blocks'[Len(blocks')].type = "paragraph"
          /\ blocks'[Len(blocks')].line = i

\* C5: until it has returned the converter always has a pass to make (no
\* input leaves it without a rule), and every pass satisfies C5_Pass; the
\* cursors are bounded by the number of lines, so the conversion ends.
C5_TotalAndProgressing ==
    /\ [](pc \in {"top", "collect"} => ENABLED <<ConvNext>>_vars)
    /\ [][C5_Pass]_vars

\* C5's case: a finished conversion in which the collector ran and handed
\* the cursor back, and a line fell through to the paragraph rule.
C5_Witness ==
    /\ pc = "done"
    /\ Len(lines) >= 3
    /\ \E k \in 1..Len(blocks) : blocks[k].type = "paragraph"
    /\ \E k \in 1..Len(blocks) : blocks[k].children # <<>>
    /\ stopped # {}

\* Whether a text has a line that is not blank.
HasNonBlankLine(text) == \E k \in 1..Len(SplitNL(text)) : ~WhitespaceOnly(SplitNL(text)[k])

\* C6: when the workflow returns, the format step has handed over the blocks
\* converted from the analysis text and the append step has been called with
\* the page id and exactly those blocks (so with some block when the analysis
\* has a non-blank line).
C6_ReportAppended ==
    wpc = "returned" =>
        /\ wBlocks = <<markdownToNotionBlocks(analysis)>>
        /\ aInput = wBlocks
        /\ \A k \in 1..Len(aCalls) : aCalls[k].block_id = pageId
        /\ ConcatChildren(aCalls) = wBlocks[1]
        /\ HasNonBlankLine(analysis) => aCalls # <<>>

\* Number of blocks given to the append step.
AppendCount == IF aInput = <<>> THEN 0 ELSE Len(aInput[1])

\* C7: the calls of the append step are made one at a time, each with 1 to
\* BATCH_SIZE blocks for the page; the batches sent so far, in order, are the
\* start of the input; when the step returns there have been ceil(n / 100)
\* calls and the batches make up the input; with no blocks no call is made
\* and the step returns without the API key.
C7_BatchesInOrder ==
    /\ \A k \in 1..Len(aCalls) :
          /\ Len(aCalls[k].children) \in 1..BATCH_SIZE
          /\ aCalls[k].block_id = aPage
    /\ Len(aCalls) - aDone \in {0, 1}
    /\ apc = "await" => Len(aCalls) - aDone = 1
    /\ apc \in {"entry", "loop", "returned"} => Len(aCalls) = aDone
    /\ aCalls # <<>> =>
          ConcatChildren(aCalls) = SubSeq(aInput[1], 1, Len(ConcatChildren(aCalls)))
    /\ apc = "returned" =>
          /\ Len(aCalls) = Ceil(AppendCount, BATCH_SIZE)
          /\ aDone = Len(aCalls)
          /\ AppendCount > 0 => ConcatChildren(aCalls) = aInput[1]
    /\ AppendCount = 0 => aCalls = <<>> /\ apc # "thrown"

\* C7's case: the step returned after three calls, the last one with the one
\* block left over from two full batches.
C7_Witness ==
    /\ apc = "returned"
    /\ Len(aCalls) = 3
    /\ Len(aCalls[1].children) = BATCH_SIZE
    /\ Len(aCalls[3].children) = 1

\* Whether a text holds a character that starts an inline pattern.
HasMarker(text) == \E k \in 1..Len(text) : text[k] \in {"*", "~", BT, "[", "h"}

C9_ChunkLengths ==
    fnPc = "done" /\ fnName = "splitRichText" =>
        LET L == Len(fnArg.content)
            N == NOTION_TEXT_LIMIT
            n == Len(fnOut)
        IN  IF L = 0
            THEN n = 1 /\ fnOut[1].content = <<>>
            ELSE /\ n = Ceil(L, N)
                 /\ \A k \in 1..(n - 1) : Len(fnOut[k].content) = N
                 /\ Len(fnOut[n].content) = L - N * (n - 1)
                 /\ Len(fnOut[n].content) \in 1..N
                 /\ L = 4500 =>
                       [k \in 1..n |-> Len(fnOut[k].content)] = <<2000, 2000, 500>>

\* C9's case: the split of 4500 characters has returned three runs.
C9_Witness ==
    /\ fnPc = "done" /\ fnName = "splitRichText"
    /\ Len(fnArg.content) = 4500
    /\ Len(fnOut) = 3
    /\ Len(fnOut[3].content) = 500

\* C10: a non-blank line on which the collector stopped is no child of any
\* item; the cursor is on it, or it is the list item waiting for its own
\* children, or it has made a top-level block of the type the top-level
\* rules give it.
C10_StopLineLeftToTopLevel ==
    \A s \in stopped :
        /\ \A k \in 1..Len(blocks) : \A c \in 1..Len(blocks[k].children) :
              blocks[k].children[c].line # s
        /\ \A c \in 1..Len(children) : children[c].line # s
        /\ \/ pc = "top" /\ i = s
           \/ \E k \in 1..Len(TopBlocks) :
                 TopBlocks[k].line = s /\ TopBlocks[k].type = Rule(lines[s])

\* C10's case: a finished conversion in which the collector stopped once on
\* a list line that is not deeper than the item and once on a plain line,
\* and both made top-level blocks.
C10_Witness ==
    /\ pc = "done"
    /\ \E s \in stopped : \E k \in 1..Len(blocks) :
          blocks[k].line = s /\ blocks[k].type = "bulleted_list_item"
    /\ \E s \in stopped : \E k \in 1..Len(blocks) :
          blocks[k].line = s /\ blocks[k].type = "paragraph"

ListTypes == {"bulleted_list_item", "numbered_list_item"}

\* The first line after line s that is not a list line indented deeper than
\* p; one past the last line when there is none.
DeeperRunEnd(ls, s, p) ==
    MinOf({j \in (s + 1)..(Len(ls) + 1) :
              j = Len(ls) + 1 \/ ~(ListMatch(ls[j]).ok /\ ListMatch(ls[j]).indent > p)})

\* C11: only top-level list items own children; every child is a list item
\* without children; and the list lines that follow a top-level item without
\* a break, each indented deeper than the item, are the item's first children,
\* one per line and in line order, whatever their own indentation.
C11_OneLevelOfNesting ==
    /\ \A c \in 1..Len(children) :
          children[c].type \in ListTypes /\ children[c].children = <<>>
    /\ \A k \in 1..Len(blocks) :
          LET b == blocks[k]
          IN  /\ b.children # <<>> => b.type \in ListTypes
              /\ \A c \in 1..Len(b.children) :
                    b.children[c].type \in ListTypes /\ b.children[c].children = <<>>
              /\ b.type \in ListTypes =>
                    LET s == b.line
                        n == DeeperRunEnd(lines, s, ListMatch(lines[s]).indent) - 1 - s
                    IN  /\ Len(b.children) >= n
                        /\ \A m \in 1..n :
                              /\ b.children[m].line = s + m
                              /\ b.children[m].type =
                                    (IF BulletMatch(lines[s + m]).ok
                                     THEN "bulleted_list_item" ELSE "numbered_list_item")
                              /\ b.children[m].rich_text =
                                    parseInlineFormatting(ListMatch(lines[s + m]).content)

\* C11's case: a finished conversion with an item whose first two children
\* come from lines of different indentation.
C11_Witness ==
    /\ pc = "done"
    /\ \E k \in 1..Len(blocks) :
          /\ Len(blocks[k].children) >= 3
          /\ ListMatch(lines[blocks[k].children[1].line]).indent
                # ListMatch(lines[blocks[k].children[2].line]).indent

\* C12: the converter returns no block exactly when every line of the input
\* is empty or whitespace-only (the empty string is one empty line).
C12_EmptyIffAllBlank ==
    pc = "done" => (blocks = <<>> <=> \A k \in 1..Len(lines) : WhitespaceOnly(lines[k]))

\* C12's case: a finished conversion of several lines, all blank and one of
\* them holding whitespace characters, that returned no block.
C12_Witness ==
    /\ pc = "done"
    /\ blocks = <<>>
    /\ Len(lines) >= 2
    /\ \E k \in 1..Len(lines) : lines[k] # <<>>

\* Position of the workflow: 1 while analyzeCompanyStep runs, 2 while
\* formatNotionPropertiesStep runs, 3 and 4 for appendToNotionPageStep (about
\* to be called, awaited), 5 once the workflow has returned or thrown.
StepRank(p) ==
    CASE p = "start" -> 0
      [] p = "analyze" -> 1
      [] p = "format" -> 2
      [] p = "append" -> 3
      [] p = "appending" -> 4
      [] OTHER -> 5

\* Whether the webhook body carries a non-empty 'Account Name' title.
HasAccountName(b) == b.depth = 6 /\ Len(b.plain_text) > 0

\* One step of a run of the workflow: a step is entered only from the one
\* before it, in the order analyze, format, append, and none is entered
\* again; a step's result and the append step's calls change only while that
\* step runs; a body without the title makes the workflow throw at once, with
\* no step entered.
C13_Step ==
    /\ wpc' # wpc =>
          /\ StepRank(wpc) < 5
          /\ wpc' = "thrown" \/ StepRank(wpc') = StepRank(wpc) + 1
    /\ analysis' # analysis => wpc = "analyze"
    /\ properties' # properties => wpc = "format"
    /\ (apc' # apc \/ aCalls' # aCalls \/ aDone' # aDone) => wpc \in {"append", "appending"}
    /\ (wpc = "start" /\ ~HasAccountName(body)) =>
          /\ wpc' = "thrown"
          /\ UNCHANGED <<analysis, properties, wBlocks, wCalls, appendVars>>

\* C13: in a run of the workflow every step satisfies C13_Step, the model
\* calls made are generateText and then generateObject, at most once each and
\* the second only after the first resolved, and a run that has ended has no
\* append call in flight.
C13_StepsInOrder ==
    /\ [][wpc # "idle" => C13_Step]_vars
    /\ [](/\ Len(wCalls) <= 2
          /\ Len(wCalls) >= 1 => wCalls[1].call = "generateText"
          /\ Len(wCalls) = 2 => wCalls[1].ok /\ wCalls[2].call = "generateObject")
    /\ [](wpc \in {"returned", "thrown"} /\ apc # "idle" => apc \in {"returned", "thrown"})

\* C13's case: a run that went through the three steps and returned.
C13_Witness ==
    /\ wpc = "returned"
    /\ apc = "returned"
    /\ Len(analysis) > 0
    /\ properties # EmptyObject
    /\ Len(wCalls) = 2

\* A block without its children.
Bare(b) == [b EXCEPT !.children = <<>>]

\* The blocks of bs, each without its children and with its children placed
\* directly after it.
RECURSIVE Flatten(_)
Flatten(bs) ==
    IF bs = <<>> THEN <<>>
    ELSE <<Bare(bs[1])>> \o bs[1].children \o Flatten(Tail(bs))

\* Every block made so far, in reading order.
FlatBlocks == Flatten(blocks) \o (IF pending = NoBlock THEN <<>> ELSE <<pending>>) \o children

\* The line the converter will look at next: the lines before it are consumed.
Cursor == IF pc = "collect" THEN ci ELSE i

\* The lines consumed so far and the blocks made from them: every block
\* comes from a non-blank consumed line, the blocks in reading order come
\* from lines in increasing order (so no line makes two blocks and none is
\* out of place), and a consumed non-blank line that made no block lies
\* between the opening line of a code block and the line of the next block,
\* that is, inside that fence.
C14_Accounted ==
    LET F == FlatBlocks
        n == Len(F)
    IN  /\ \A k \in 1..n : F[k].line < Cursor /\ ~WhitespaceOnly(lines[F[k].line])
        /\ \A k \in 1..(n - 1) : F[k].line < F[k + 1].line
        /\ \A j \in 1..(Cursor - 1) :
              ~WhitespaceOnly(lines[j]) =>
                  \E k \in 1..n :
                      \/ F[k].line = j
                      \/ /\ F[k].type = "code" /\ F[k].line < j
                         /\ k = n \/ j < F[k + 1].line
        /\ pc = "done" => Cursor = Len(lines) + 1

\* One pass of the converter: the cursor does not move backwards and the
\* blocks made before the pass are kept, in place.
C14_Pass ==
    /\ Cursor' >= Cursor
    /\ i' >= i
    /\ Len(FlatBlocks') >= Len(FlatBlocks)
    /\ SubSeq(FlatBlocks', 1, Len(FlatBlocks)) = FlatBlocks

TrimsToEmpty(t) == \A k \in 1..Len(t) : t[k] \in {" ", "\t", "\n"}

\* The format step, from its call to the workflow's next statement: it always
\* returns; on an analysis that trims to empty it returns no property and
\* makes no model call; otherwise it calls generateObject once, returns no
\* property when the call rejected, and in every case returns no property
\* that is undefined, has a null select, url or number, or an empty rich_text.
C15_Step ==
    wpc = "format" =>
        /\ wpc' = "append"
        /\ IF TrimsToEmpty(analysis)
           THEN properties' = EmptyObject /\ wCalls' = wCalls
           ELSE /\ Len(wCalls') = Len(wCalls) + 1
                /\ wCalls'[Len(wCalls')].call = "generateObject"
                /\ ~wCalls'[Len(wCalls')].ok => properties' = EmptyObject
        /\ \A key \in DOMAIN properties' :
              /\ properties'[key].field \in {"select", "url", "number", "rich_text"}
              /\ properties'[key].value # <<>>

\* C15: every step the workflow takes from the format step satisfies
\* C15_Step, and the workflow never ends in the format step.
C15_FormatNeverFails ==
    /\ [][C15_Step]_vars
    /\ [](wpc \in {"returned", "thrown"} /\ Len(wCalls) = 2 => wpc = apc)

\* C15's case: the structured generation rejected and the workflow went on
\* to the append step and returned, with no property.
C15_Witness ==
    /\ wpc = "returned"
    /\ Len(wCalls) = 2
    /\ ~wCalls[2].ok
    /\ properties = EmptyObject

====
